---- MODULE Spec2Model ----
(***************************************************************************)
(* RcppML::svd<T> (inst/include/RcppML/svd.hpp): the masking setters, the  *)
(* loss evaluators mse() / mse_masked(), the per-rank ALS fitters and the  *)
(* orchestrators fit() / fit_restarts().                                    *)
(*                                                                         *)
(* Floating-point contents of U, V, D and tol_ are carried as symbolic     *)
(* values that record what wrote them (starting point, rank, scaling);     *)
(* shapes, indices, counters, flags and control flow are modelled exactly. *)
(* Matrices are 0-based, as in the source.                                 *)
(***************************************************************************)
EXTENDS Integers, Naturals, Sequences, FiniteSets, TLC

\* ---------------------------------------------------------------- bounds
MaxDim == 2
MaxRank == 3
MaxIt == 2
MaxRestarts == 4

\* Values mse() can return inside fit_restarts (the spec's example uses 3, 4, 5).
MseVals == {3, 4, 5}

\* Sparsity patterns of A and of a mask matrix that the inputs are drawn from.
Patterns == {"none", "all", "diag", "first", "lastcol"}

\* ---------------------------------------------------------------- values
\* A symbolic floating-point value: what wrote it (src), from which starting U
\* it derives (run: 0 is the constructor's, i the i-th restart candidate's),
\* for which rank, and its scaling state.
Val(src, run, rank, st) ==
    [src |-> src, run |-> run, rank |-> rank, st |-> st]

Const(s) == Val("const", 0, 0, s)

\* ---------------------------------------------------------------- matrices
Cells(rows, cols) == (0 .. rows - 1) \X (0 .. cols - 1)

\* A dense matrix all of whose entries are e.
Fill(rows, cols, e) ==
    [rows |-> rows, cols |-> cols, x |-> [p \in Cells(rows, cols) |-> e]]

InPattern(pat, rows, cols, p) ==
    CASE pat = "none"    -> FALSE
      [] pat = "all"     -> TRUE
      [] pat = "diag"    -> p[1] = p[2]
      [] pat = "first"   -> p = <<0, 0>>
      [] pat = "lastcol" -> p[2] = cols - 1

\* The input matrix A: entry 1 where the pattern has a nonzero, 0 elsewhere.
InputMatrix(rows, cols, pat) ==
    [rows |-> rows, cols |-> cols,
     x |-> [p \in Cells(rows, cols) |->
              IF InPattern(pat, rows, cols, p) THEN 1 ELSE 0]]

\* An Rcpp::SparseMatrix used as a mask: its stored entries are the masked cells.
SparseMask(rows, cols, pat) ==
    [rows |-> rows, cols |-> cols,
     cells |-> {p \in Cells(rows, cols) : InPattern(pat, rows, cols, p)}]

EmptySparse == [rows |-> 0, cols |-> 0, cells |-> {}]

\* m.col(k) = e (every entry of column k).
SetCol(m, k, e) ==
    [m EXCEPT !.x = [p \in DOMAIN m.x |-> IF p[2] = k THEN e ELSE m.x[p]]]

NonZeros(a) == {p \in DOMAIN a.x : a.x[p] # 0}

\* isAppxSymmetric (external): square and equal to its transpose.
DenseSymmetric(a) ==
    /\ a.rows = a.cols
    /\ \A p \in DOMAIN a.x : a.x[p] = a.x[<<p[2], p[1]>>]

SparseSymmetric(m) ==
    /\ m.rows = m.cols
    /\ \A p \in m.cells : <<p[2], p[1]>> \in m.cells

\* ---------------------------------------------------------------- state
VARIABLES
    sparse,        \* TRUE: T = Rcpp::SparseMatrix, FALSE: T = Eigen::MatrixXd
    A,             \* T& A
    mask_matrix,   \* Rcpp::SparseMatrix mask_matrix
    u, v, d,       \* Eigen::MatrixXd u, v; Eigen::VectorXd d
    tol_, mse_,    \* double tol_, mse_
    iter_,         \* unsigned int iter_
    best_model_,   \* unsigned int best_model_
    mask, mask_zeros, symmetric,
    maxit,         \* unsigned int maxit
    pc,            \* position of the running call ("idle": none)
    fr,            \* locals of fit(), fit_rank_*() and fit_restarts()
    ret,           \* outcome of the last finished public call
    hist           \* history: what the running call has done so far

obj == <<u, v, d, tol_, mse_, iter_, best_model_, mask, mask_zeros, symmetric,
         mask_matrix>>
env == <<sparse, A, maxit>>
vars == <<sparse, A, mask_matrix, u, v, d, tol_, mse_, iter_, best_model_,
          mask, mask_zeros, symmetric, maxit, pc, fr, ret, hist>>

\* The model's fields as one record (for before/after comparisons).
Snapshot ==
    [u |-> u, v |-> v, d |-> d, tol_ |-> tol_, mse_ |-> mse_, iter_ |-> iter_,
     best_model_ |-> best_model_, mask |-> mask, mask_zeros |-> mask_zeros,
     symmetric |-> symmetric, mask_matrix |-> mask_matrix]

Rank == u.cols

\* The outcome of a public call: "ok", "error" (Rcpp::stop) or "interrupt";
\* arg is the mask passed to maskMatrix; val, cells, div and ub describe a loss
\* returned by mse() or mse_masked(); pre is the model as it was when a setter,
\* an evaluator or a call that ended in Rcpp::stop was entered.
Ret(op, status, pre) ==
    [op |-> op, status |-> status, arg |-> <<>>, val |-> 0, cells |-> {},
     div |-> 0, ub |-> FALSE, pre |-> pre]

Uninit == Val("uninit", 0, 0, "")

\* Locals of the running call: k of fit(); d / d_k and u_it of the rank fitter;
\* i, u_best, v_best, tol_best, mse_best of fit_restarts().
Locals(caller) ==
    [caller |-> caller, k |-> 0, dloc |-> Uninit, u_it |-> Uninit,
     i |-> 0, u_best |-> u, v_best |-> v, tol_best |-> tol_, mse_best |-> 0]

NoLocals == [caller |-> "none"]

\* History of one fit() run: per rank, the iterations completed, the polls made
\* and whether the loop was left by break; the factors as the last completed
\* iteration left them; d and iter_ on entry; the reads of lower-rank columns.
FitHistory(um, itr) ==
    [its |-> [j \in 0 .. um.cols - 1 |-> 0],
     polls |-> [j \in 0 .. um.cols - 1 |-> 0],
     broke |-> [j \in 0 .. um.cols - 1 |-> FALSE],
     iterEnd |-> [u |-> um, v |-> v],
     dEntry |-> d, entryIter |-> itr, reads |-> {}]

NoSnap == [idx |-> -1]

\* History of one public call: the model on entry, the fit() run in progress,
\* the MSE of each restart, the result of the first restart with the smallest
\* MSE, and the length of the list once fit_restarts has seen its end.
History(op) ==
    [op |-> op, pre |-> Snapshot, fit |-> FitHistory(u, iter_), mses |-> <<>>,
     bestSnap |-> NoSnap, len |-> -1]

NoHist == [op |-> "none"]

\* ---------------------------------------------------------------- setters
\* void maskZeros()
maskZeros ==
    /\ pc = "idle"
    /\ IF mask
         THEN /\ ret' = Ret("maskZeros", "error", Snapshot)
              /\ UNCHANGED mask_zeros
         ELSE /\ mask_zeros' = TRUE
              /\ ret' = Ret("maskZeros", "ok", Snapshot)
    /\ UNCHANGED <<env, mask_matrix, u, v, d, tol_, mse_, iter_, best_model_,
                   mask, symmetric, pc, fr, hist>>

\* The masks a caller may pass: the shape of A, or one row more.
MaskInputs ==
    {SparseMask(r, A.cols, pat) : r \in {A.rows, A.rows + 1}, pat \in Patterns}

\* maskMatrix without its third check (mask_zeros already set).
maskMatrixIgnoresMaskZeros(m) ==
    \/ mask
    \/ m.rows # A.rows \/ m.cols # A.cols

\* maskMatrix without its first check (a mask matrix already set).
maskMatrixIgnoresMask(m) ==
    \/ m.rows # A.rows \/ m.cols # A.cols
    \/ mask_zeros

\* The three checks of maskMatrix, in the order of the source.
maskMatrixRejects(m) ==
    \/ mask
    \/ m.rows # A.rows \/ m.cols # A.cols
    \/ mask_zeros

\* void maskMatrix(Rcpp::SparseMatrix& m)
maskMatrix(m) ==
    /\ pc = "idle"
    /\ IF maskMatrixRejects(m)
         THEN /\ ret' = [Ret("maskMatrix", "error", Snapshot) EXCEPT !.arg = m]
              /\ UNCHANGED <<mask, mask_matrix, symmetric>>
         ELSE /\ mask' = TRUE
              /\ mask_matrix' = m
              /\ symmetric' = IF symmetric THEN SparseSymmetric(m) ELSE symmetric
              /\ ret' = [Ret("maskMatrix", "ok", Snapshot) EXCEPT !.arg = m]
    /\ UNCHANGED <<env, u, v, d, tol_, mse_, iter_, best_model_, mask_zeros,
                   pc, fr, hist>>

\* ---------------------------------------------------------------- loss
\* Columns the evaluators loop over: for (i = 0; i < v.cols(); ++i).
LossCols == 0 .. v.cols - 1

\* Length of uv_i = u0 * v.col(i), with u0 = u.transpose().
UvLen == u.cols

\* u0 * v.col(i) multiplies a (u.cols x u.rows) matrix by a vector of v.rows.
ProductMismatch == v.cols > 0 /\ u.rows # v.rows

\* Entries (row, col) whose squared error mse() adds to the loss.
mseCells ==
    IF mask_zeros
    THEN {p \in NonZeros(A) : p[2] \in LossCols /\ p[1] < UvLen}
    ELSE {p \in Cells(UvLen, v.cols) : ~(mask /\ p \in mask_matrix.cells)}

\* The divisor of mse(): "number of applicable measurements".
mseDivisor ==
    IF mask THEN v.cols * u.cols - Cardinality(mask_matrix.cells)
    ELSE IF mask_zeros THEN Cardinality(NonZeros(A))
    ELSE v.cols * u.cols

\* Whether mse() indexes outside a vector or matrix (undefined behaviour).
\* svd<Eigen::MatrixXd>::mse reads A(iter, i) and uv_i(iter) for every row.
mseDenseOutOfBounds ==
    \/ ProductMismatch
    \/ v.cols > A.cols
    \/ IF mask_zeros
       THEN \E p \in NonZeros(A) : p[2] \in LossCols /\ p[1] >= UvLen
       ELSE v.cols > 0 /\ A.rows > UvLen
    \/ (~mask_zeros /\ mask /\
          \E p \in mask_matrix.cells : p[2] \in LossCols /\ p[1] >= UvLen)

\* svd<Rcpp::SparseMatrix>::mse touches uv_i only at the stored rows of A.
mseSparseOutOfBounds ==
    \/ ProductMismatch
    \/ v.cols > A.cols
    \/ \E p \in NonZeros(A) : p[2] \in LossCols /\ p[1] >= UvLen
    \/ (~mask_zeros /\ mask /\
          \E p \in mask_matrix.cells : p[2] \in LossCols /\ p[1] >= UvLen)

mseOutOfBounds == IF sparse THEN mseSparseOutOfBounds ELSE mseDenseOutOfBounds

\* double mse(): the value is one of MseVals; what it was computed over is kept.
mse ==
    /\ pc = "idle"
    /\ \E val \in MseVals :
         ret' = [Ret("mse", "ok", Snapshot) EXCEPT !.val = val, !.cells = mseCells,
                   !.div = mseDivisor, !.ub = mseOutOfBounds]
    /\ UNCHANGED <<env, obj, pc, fr, hist>>

\* Entries (row, col) whose squared error mse_masked() adds to the loss: the
\* stored entries of the mask in the columns looped over (for a sparse A the
\* stored masked entries of A and the masked implicit zeros).
mse_maskedCells == {p \in mask_matrix.cells : p[2] \in LossCols}

mse_maskedDivisor == Cardinality(mask_matrix.cells)

mse_maskedOutOfBounds ==
    \/ ProductMismatch
    \/ v.cols > mask_matrix.cols
    \/ \E p \in mask_matrix.cells : p[2] \in LossCols /\ p[1] >= UvLen

\* double mse_masked()
mse_masked ==
    /\ pc = "idle"
    /\ IF ~mask
         THEN ret' = Ret("mse_masked", "error", Snapshot)
         ELSE \E val \in MseVals :
                ret' = [Ret("mse_masked", "ok", Snapshot) EXCEPT !.val = val,
                          !.cells = mse_maskedCells, !.div = mse_maskedDivisor,
                          !.ub = mse_maskedOutOfBounds]
    /\ UNCHANGED <<env, obj, pc, fr, hist>>

\* ---------------------------------------------------------------- fit
\* The class's shape invariant, which the constructors establish.
WellShaped ==
    /\ u.rows = A.rows
    /\ v.rows = A.cols
    /\ u.cols = v.cols

\* void fit(), called by the user on a dense model: for (int k = 0; ...
fit ==
    /\ pc = "idle"
    /\ ~sparse
    /\ WellShaped
    /\ fr' = Locals("fit")
    /\ hist' = History("fit")
    /\ pc' = "fit_for"
    /\ UNCHANGED <<env, obj, ret>>

\* for (int k = 0; k < u.cols(); ++k): enter the fitter of rank k, whose local
\* "double d" (d_k in fit_rank_k) starts uninitialized; after the last rank,
\* go on to the diagonal.
fitFor ==
    /\ pc = "fit_for"
    /\ IF fr.k < u.cols
         THEN /\ fr' = [fr EXCEPT !.dloc = Uninit]
              /\ pc' = "rank_for"
         ELSE /\ pc' = "diagonal"
              /\ UNCHANGED fr
    /\ UNCHANGED <<env, obj, ret, hist>>

\* for (; iter_ < maxit; ++iter_): the loop test of fit_rank_one / _two / _k,
\* followed by u_it = u.col(k) when the body is entered.
rankFor ==
    /\ pc = "rank_for"
    /\ IF iter_ < maxit
         THEN /\ fr' = [fr EXCEPT !.u_it = u.x[<<0, fr.k>>]]
              /\ pc' = "update_v"
         ELSE /\ pc' = "unscale"
              /\ UNCHANGED fr
    /\ UNCHANGED <<env, obj, ret, hist>>

\* The lower-rank column a fitter reads at index i in its V loop, where i runs
\* over v.rows(): fit_rank_two reads u.col(0)(i), fit_rank_k v.col(_k)(i).
DeflationReadV(k) ==
    IF k = 1 THEN [of |-> "u", len |-> u.rows] ELSE [of |-> "v", len |-> v.rows]

\* The lower-rank column a fitter reads at index i in its U loop, where i runs
\* over u.rows(): fit_rank_two reads v.col(0)(i), fit_rank_k u.col(_k)(i).
DeflationReadU(k) ==
    IF k = 1 THEN [of |-> "v", len |-> v.rows] ELSE [of |-> "u", len |-> u.rows]

\* The reads of lower-rank columns made by a loop of `rows` indices: none in
\* fit_rank_one; past the end of the column when it is shorter than the loop.
DeflationReads(k, loop, rd, rows) ==
    IF k = 0 THEN {}
    ELSE {[rank |-> k, loop |-> loop, of |-> rd.of, inRange |-> rows <= rd.len]}

\* "Update V" and "Scale V": column k of v is rewritten from column k of u; an
\* element read past the end of a column leaves an arbitrary value in it.
updateV ==
    /\ pc = "update_v"
    /\ LET k == fr.k
           reads == DeflationReads(k, "V", DeflationReadV(k), v.rows)
           bad == \E r \in reads : ~r.inRange
           src == u.x[<<0, k>>]
       IN /\ v' = SetCol(v, k, Val("v", src.run, k,
                                    IF bad THEN "garbage" ELSE "unit"))
          /\ hist' = [hist EXCEPT !.fit.reads = @ \cup reads]
    /\ pc' = "update_u"
    /\ UNCHANGED <<env, mask_matrix, u, d, tol_, mse_, iter_, best_model_, mask,
                   mask_zeros, symmetric, fr, ret>>

\* "Update U", "Scale U" (d = u.col(k).norm(); u.col(k) /= d + DIV_OFFSET) and
\* tol_ = cor(u_post_it, u_it).  Whether the new tol_ is below tol depends on
\* the numbers: both outcomes are possible.
updateU ==
    /\ pc = "update_u"
    /\ \E below \in BOOLEAN :
        LET k == fr.k
            reads == DeflationReads(k, "U", DeflationReadU(k), u.rows)
            bad == \E r \in reads : ~r.inRange
            src == v.x[<<0, k>>]
            unew == SetCol(u, k, Val("u", src.run, k,
                        IF bad \/ src.st = "garbage" THEN "garbage" ELSE "unit"))
        IN /\ u' = unew
           /\ fr' = [fr EXCEPT !.dloc = Val("norm", src.run, k, "")]
           /\ tol_' = Val("tol", src.run, k,
                          IF below THEN "below" ELSE "above")
           /\ hist' = [hist EXCEPT
                         !.fit.reads = @ \cup reads,
                         !.fit.its[k] = @ + 1,
                         !.fit.iterEnd = [u |-> unew, v |-> v]]
    /\ pc' = "check_exit"
    /\ UNCHANGED <<env, mask_matrix, v, d, mse_, iter_, best_model_, mask,
                   mask_zeros, symmetric, ret>>

\* if (tol_ < tol) break;
exitOnTolerance ==
    /\ pc = "check_exit"
    /\ tol_.st = "below"
    /\ hist' = [hist EXCEPT !.fit.broke[fr.k] = TRUE]
    /\ pc' = "unscale"
    /\ UNCHANGED <<env, obj, fr, ret>>

\* Where the fitters call Rcpp::checkUserInterrupt().
PollSite == "check_exit"

\* The poll moved in front of "if (tol_ < tol) break;": every iteration polls.
checkUserInterruptBeforeBreak(interrupted) ==
    /\ pc = PollSite
    /\ hist' = [hist EXCEPT !.fit.polls[fr.k] = @ + 1,
                            !.fit.broke[fr.k] = (tol_.st = "below")]
    /\ IF interrupted
         THEN /\ pc' = "idle"
              /\ ret' = Ret(hist.op, "interrupt", <<>>)
              /\ fr' = NoLocals
              /\ UNCHANGED iter_
         ELSE /\ iter_' = IF tol_.st = "below" THEN iter_ ELSE iter_ + 1
              /\ pc' = IF tol_.st = "below" THEN "unscale" ELSE "rank_for"
              /\ UNCHANGED <<fr, ret>>
    /\ UNCHANGED <<env, mask_matrix, u, v, d, tol_, mse_, best_model_, mask,
                   mask_zeros, symmetric>>

\* Rcpp::checkUserInterrupt(), reached when tol_ >= tol: it either throws, which
\* ends the running public call, or returns, and the loop goes on to ++iter_.
checkUserInterrupt(interrupted) ==
    /\ pc = PollSite
    /\ tol_.st # "below"
    /\ hist' = [hist EXCEPT !.fit.polls[fr.k] = @ + 1]
    /\ IF interrupted
         THEN /\ pc' = "idle"
              /\ ret' = Ret(hist.op, "interrupt", <<>>)
              /\ fr' = NoLocals
              /\ UNCHANGED iter_
         ELSE /\ iter_' = iter_ + 1
              /\ pc' = "rank_for"
              /\ UNCHANGED <<fr, ret>>
    /\ UNCHANGED <<env, mask_matrix, u, v, d, tol_, mse_, best_model_, mask,
                   mask_zeros, symmetric>>

\* '"unscale" U': u.col(k) *= d with the fitter's local d, which holds the norm
\* computed by the last iteration, or nothing if the loop body never ran.
unscale ==
    /\ pc = "unscale"
    /\ LET k == fr.k
           old == u.x[<<0, k>>]
       IN u' = SetCol(u, k, IF fr.dloc = Uninit
                             THEN Val("garbage", old.run, k, old.st)
                             ELSE [old EXCEPT !.st = IF @ = "unit" THEN "scaled"
                                                                  ELSE @])
    /\ fr' = [fr EXCEPT !.k = @ + 1]
    /\ pc' = "fit_for"
    /\ UNCHANGED <<env, mask_matrix, v, d, tol_, mse_, iter_, best_model_, mask,
                   mask_zeros, symmetric, ret, hist>>

\* d(i) = u.col(i).norm()
NormOf(e) == [e EXCEPT !.src = IF @ = "garbage" THEN @ ELSE "norm"]

\* u.col(i) /= d(i)
Normalized(e) == [e EXCEPT !.st = IF @ = "scaled" THEN "unit" ELSE @]

\* "Calculate diagonal", then fit() returns to its caller.
diagonal ==
    /\ pc = "diagonal"
    /\ d' = [j \in 0 .. u.cols - 1 |-> NormOf(u.x[<<0, j>>])]
    /\ u' = [u EXCEPT !.x = [p \in DOMAIN u.x |-> Normalized(u.x[p])]]
    /\ IF fr.caller = "fit"
         THEN /\ pc' = "idle"
              /\ ret' = Ret("fit", "ok", <<>>)
              /\ fr' = NoLocals
         ELSE /\ pc' = "restart_score"
              /\ UNCHANGED <<fr, ret>>
    /\ UNCHANGED <<env, mask_matrix, v, tol_, mse_, iter_, best_model_, mask,
                   mask_zeros, symmetric, hist>>

\* ---------------------------------------------------------------- fit_restarts
\* Candidate number i (1-based, as printed by "Fitting model i/n"): an initial
\* U of the model's own shape, rows(A) x k, or one with a row too many for
\* either dimension check.
Candidate(i, wellFormed) ==
    Fill(IF wellFormed THEN A.rows ELSE A.cols + 1, v.cols,
         Val("init", i, 0, "u"))

\* void fit_restarts(Rcpp::List& u_init), called on a newly constructed dense
\* model: the locals before the loop.  The list u_init is revealed one element
\* at a time, at the loop test: the function reads neither an element nor the
\* length earlier, except to print them.
fit_restarts ==
    /\ pc = "idle"
    /\ ret.op = "construct"
    /\ ~sparse
    /\ fr' = Locals("fit_restarts")
    /\ hist' = History("fit_restarts")
    /\ pc' = "restart_for"
    /\ UNCHANGED <<env, obj, ret>>

\* The two dimension checks made on a candidate (after it was stored in u).
restartRejects(cand) ==
    \/ cand.rows # v.rows
    \/ cand.cols # A.rows

\* for (i = 0; i < u_init.length(); ++i) with i < u_init.length(): store
\* candidate i in u, reset tol_ and iter_, check the dimensions, call fit().
restartFor(wellFormed) ==
    /\ pc = "restart_for"
    /\ fr.i < MaxRestarts
    /\ LET cand == Candidate(fr.i + 1, wellFormed)
       IN /\ u' = cand
          /\ tol_' = Const("1")
          /\ iter_' = 0
          /\ IF restartRejects(cand)
               THEN /\ pc' = "idle"
                    /\ ret' = Ret("fit_restarts", "error", hist.pre)
                    /\ fr' = NoLocals
                    /\ UNCHANGED hist
               ELSE /\ pc' = "fit_for"
                    /\ fr' = [fr EXCEPT !.k = 0]
                    /\ hist' = [hist EXCEPT !.fit = FitHistory(cand, 0)]
                    /\ UNCHANGED ret
    /\ UNCHANGED <<env, mask_matrix, v, d, mse_, best_model_, mask, mask_zeros,
                   symmetric>>

\* if (best_model_ != (u_init.length() - 1))
restoresBest(length) == best_model_ # length - 1

\* The loop test with i == u_init.length(): the list had fr.i elements; copy
\* the best result back unless the best restart is the last one, and return.
restartEnd ==
    /\ pc = "restart_for"
    /\ IF restoresBest(fr.i)
         THEN /\ u' = fr.u_best
              /\ v' = fr.v_best
              /\ tol_' = fr.tol_best
              /\ mse_' = fr.mse_best
         ELSE UNCHANGED <<u, v, tol_, mse_>>
    /\ pc' = "idle"
    /\ ret' = Ret("fit_restarts", "ok", <<>>)
    /\ fr' = NoLocals
    /\ hist' = [hist EXCEPT !.len = fr.i]
    /\ UNCHANGED <<env, mask_matrix, d, iter_, best_model_, mask, mask_zeros,
                   symmetric>>

\* The comparison with <= in place of <: a later restart wins a tie.
ImprovesOrTies(i, m, best) == i = 0 \/ m <= best

\* if (i == 0 || mse_ < mse_best)
Improves(i, m, best) == i = 0 \/ m < best

Min(seq) == CHOOSE m \in {seq[j] : j \in DOMAIN seq} :
                \A j \in DOMAIN seq : m <= seq[j]

\* mse_ = mse() and the comparison with the best so far, then ++i.  The history
\* keeps every restart's MSE and the result of the first restart that reached
\* the smallest of them.
restartScore ==
    /\ pc = "restart_score"
    /\ \E m \in MseVals :
         /\ mse_' = m
         /\ IF Improves(fr.i, m, fr.mse_best)
              THEN /\ best_model_' = fr.i
                   /\ fr' = [fr EXCEPT !.u_best = u, !.v_best = v,
                                       !.tol_best = tol_, !.mse_best = m,
                                       !.i = @ + 1]
              ELSE /\ fr' = [fr EXCEPT !.i = @ + 1]
                   /\ UNCHANGED best_model_
         /\ hist' = [hist EXCEPT
                       !.mses = Append(@, m),
                       !.bestSnap =
                          IF hist.mses = <<>> \/ m < Min(hist.mses)
                          THEN [idx |-> fr.i, u |-> u, v |-> v, d |-> d,
                                tol_ |-> tol_, mse_ |-> m]
                          ELSE @]
    /\ pc' = "restart_for"
    /\ UNCHANGED <<env, mask_matrix, u, v, d, tol_, iter_, mask, mask_zeros,
                   symmetric, ret>>

\* ---------------------------------------------------------------- construction
\* svd(T& A, Eigen::MatrixXd u, Eigen::MatrixXd v): u is rows(A) x k, v is
\* cols(A) x k, d is all ones, no mask, nothing fit yet.  The backend and the
\* sparsity pattern of A are drawn from backends and pats.
Construct(backends, pats) ==
    \E r \in 1 .. MaxDim, c \in 1 .. MaxDim, k \in 1 .. MaxRank,
       pat \in pats, sp \in backends, mx \in 1 .. MaxIt :
        /\ sparse = sp
        /\ A = InputMatrix(r, c, pat)
        /\ u = Fill(r, k, Val("init", 0, 0, "u"))
        /\ v = Fill(c, k, Val("init", 0, 0, "v"))
        /\ d = [j \in 0 .. k - 1 |-> Const("1")]
        /\ tol_ = Const("-1")
        /\ mse_ = 0
        /\ iter_ = 0
        /\ best_model_ = 0
        /\ mask = FALSE
        /\ mask_zeros = FALSE
        /\ symmetric = DenseSymmetric(InputMatrix(r, c, pat))
        /\ mask_matrix = EmptySparse
        /\ maxit = mx
        /\ pc = "idle"
        /\ fr = NoLocals
        /\ ret = Ret("construct", "ok", <<>>)
        /\ hist = NoHist

\* Masking and loss evaluation, on either backend and every pattern of A.
InitLoss == Construct(BOOLEAN, Patterns)

NextLoss ==
    \/ maskZeros
    \/ \E m \in MaskInputs : maskMatrix(m)
    \/ mse
    \/ mse_masked

SpecLoss == InitLoss /\ [][NextLoss]_vars

\* fit(), any number of times, on the dense backend (the only one the fitters
\* are written for); the fitters read neither the mask nor the pattern of A.
InitFit == Construct({FALSE}, {"all"})

FitSteps ==
    \/ fitFor
    \/ rankFor
    \/ updateV
    \/ updateU
    \/ exitOnTolerance
    \/ \E interrupted \in BOOLEAN : checkUserInterrupt(interrupted)
    \/ unscale
    \/ diagonal

NextFit ==
    \/ fit
    \/ FitSteps

SpecFit == InitFit /\ [][NextFit]_vars

\* fit_restarts() on a newly constructed dense model.
NextRestarts ==
    \/ fit_restarts
    \/ \E wellFormed \in BOOLEAN : restartFor(wellFormed)
    \/ restartEnd
    \/ restartScore
    \/ FitSteps

SpecRestarts == InitFit /\ [][NextRestarts]_vars
\* ---------------------------------------------------------------- claims
Returned(op, status) == pc = "idle" /\ ret.op = op /\ ret.status = status

\* C1: the two masking modes are never both active; maskMatrix(M) after
\* maskZeros() fails and maskZeros() after maskMatrix(M) fails.
C1_MaskModesExclusive ==
    /\ ~(mask /\ mask_zeros)
    /\ (ret.op = "maskMatrix" /\ ret.pre.mask_zeros => ret.status = "error")
    /\ (ret.op = "maskZeros" /\ ret.pre.mask => ret.status = "error")

\* maskMatrix(M), M of the shape of A, was called with mask_zeros set and failed.
C1_Witness ==
    /\ Returned("maskMatrix", "error")
    /\ ret.pre.mask_zeros
    /\ ret.arg.rows = A.rows /\ ret.arg.cols = A.cols

\* C2 as stated: each masking setter fails when its own mode is already active
\* (maskZeros() with mask_zeros set, maskMatrix(M) with a mask matrix set).
C2_EachSetterFailsOnItsOwnMode ==
    /\ (ret.op = "maskZeros" /\ ret.pre.mask_zeros => ret.status = "error")
    /\ (ret.op = "maskMatrix" /\ ret.pre.mask => ret.status = "error")

\* C2 as amended: maskMatrix(M) fails when a mask matrix is already set;
\* maskZeros() with mask_zeros already set succeeds and changes nothing.
C2_OnlyMaskMatrixFailsOnItsOwnMode ==
    /\ (ret.op = "maskMatrix" /\ ret.pre.mask => ret.status = "error")
    /\ (ret.op = "maskZeros" /\ ret.pre.mask_zeros =>
          ret.status = "ok" /\ Snapshot = ret.pre)

\* A second maskMatrix(M), M of the shape of A, was called and failed.
C2_Witness ==
    /\ Returned("maskMatrix", "error")
    /\ ret.pre.mask /\ ~ret.pre.mask_zeros
    /\ ret.arg.rows = A.rows /\ ret.arg.cols = A.cols

\* The first (0-based) index at which seq has its smallest element.
FirstArgMin(seq) ==
    CHOOSE i \in 0 .. Len(seq) - 1 :
        /\ seq[i + 1] = Min(seq)
        /\ \A j \in 0 .. i - 1 : seq[j + 1] # Min(seq)

\* C3: when fit_restarts returns from a non-empty list, best_model is the
\* smallest index whose MSE is the minimum over all restarts.
C3_BestIsFirstMinimum ==
    Returned("fit_restarts", "ok") /\ hist.len >= 1 =>
        /\ Len(hist.mses) = hist.len
        /\ best_model_ = FirstArgMin(hist.mses)

\* The restarts ended with MSEs 5, 3, 3, 4 and fit_restarts returned.
C3_Witness ==
    /\ Returned("fit_restarts", "ok")
    /\ hist.mses = <<5, 3, 3, 4>>
    /\ best_model_ = 1

\* C4: when fit_restarts returns, U, V, D, the tolerance and the MSE are those
\* the fit of restart best_model ended with.
C4_ResultIsThatOfBest ==
    Returned("fit_restarts", "ok") /\ hist.len >= 1 =>
        /\ hist.bestSnap.idx = best_model_
        /\ u = hist.bestSnap.u
        /\ v = hist.bestSnap.v
        /\ d = hist.bestSnap.d
        /\ tol_ = hist.bestSnap.tol_
        /\ mse_ = hist.bestSnap.mse_

\* The fields C5 names: U, V, D, tolerance, iteration count, masking flags.
Guarded(s) == <<s.u, s.v, s.d, s.tol_, s.iter_, s.mask, s.mask_zeros>>

\* C5: a call that ended in a configuration error left U, V, D, the tolerance,
\* the iteration count and the masking flags as they were when it was entered.
C5_FailedCallChangesNothing ==
    pc = "idle" /\ ret.status = "error" => Guarded(Snapshot) = Guarded(ret.pre)

\* The entries of A that count towards the ordinary loss.
Applicable ==
    IF mask_zeros THEN NonZeros(A)
    ELSE IF mask THEN Cells(A.rows, A.cols) \ mask_matrix.cells
    ELSE Cells(A.rows, A.cols)

\* C6: mse() sums over exactly the applicable entries of A and divides by
\* their number, whatever the shape of A and the rank.
C6_MseOverApplicableEntries ==
    Returned("mse", "ok") =>
        /\ ret.cells = Applicable
        /\ ret.div = Cardinality(Applicable)

\* C7: with a mask matrix set, every entry of A is counted by exactly one of
\* mse() and mse_masked(), and the divisors are the two counts.
C7_LossesPartitionEntries ==
    Returned("mse_masked", "ok") =>
        /\ ret.cells \cup mseCells = Cells(A.rows, A.cols)
        /\ ret.cells \cap mseCells = {}
        /\ ret.div = Cardinality(mask_matrix.cells)
        /\ mseDivisor = A.rows * A.cols - Cardinality(mask_matrix.cells)

\* An interrupted fit left U and V as the last completed iteration wrote them
\* and D as it was when fit() was entered.
InterruptLeavesLastIteration ==
    pc = "idle" /\ ret.status = "interrupt" =>
        /\ u = hist.fit.iterEnd.u
        /\ v = hist.fit.iterEnd.v
        /\ d = hist.fit.dEntry

\* Rank j's fitter is between its tolerance computation and its poll.
BeforePoll(j) == pc = "check_exit" /\ fr.k = j

\* C8 as stated: every completed iteration of a rank fitter is followed by one
\* poll (none is made inside an iteration), and an aborting poll leaves U, V
\* of the last completed iteration and D unmodified.
C8_PollOncePerIteration ==
    hist.op = "fit" =>
        /\ \A j \in DOMAIN hist.fit.its :
              hist.fit.polls[j] =
                 hist.fit.its[j] - (IF BeforePoll(j) THEN 1 ELSE 0)
        /\ InterruptLeavesLastIteration

\* C8 as amended: every completed iteration is followed by one poll except the
\* iteration whose tolerance met the threshold, which leaves the loop before
\* the poll; none is made inside an iteration, and an aborting poll leaves U,
\* V of the last completed iteration and D unmodified.
C8_PollOncePerUnconvergedIteration ==
    hist.op = "fit" =>
        /\ \A j \in DOMAIN hist.fit.its :
              hist.fit.polls[j] =
                 hist.fit.its[j] -
                   (IF BeforePoll(j) \/ hist.fit.broke[j] THEN 1 ELSE 0)
        /\ InterruptLeavesLastIteration

\* The rank-k fitter (k = 2) was interrupted at its second poll.
C8_Witness ==
    /\ Returned("fit", "interrupt")
    /\ u.cols >= 3
    /\ hist.fit.polls[2] = 2
    /\ hist.fit.its[2] = 2

\* C9: a fit() on two or more columns, entered with iter_ = 0, ran every
\* rank's loop until its tolerance met the threshold or it had made maxit
\* iterations, so every rank made at least one iteration.
C9_EveryRankIterates ==
    Returned("fit", "ok") /\ hist.fit.entryIter = 0 /\ u.cols >= 2 =>
        \A j \in DOMAIN hist.fit.its :
            /\ hist.fit.its[j] >= 1
            /\ hist.fit.broke[j] \/ hist.fit.its[j] = maxit

\* C10: in both loops of the rank-2 fitter the read of column 0 is within the
\* column, and the V loop reads column 0 of V (the U loop column 0 of U), as
\* the rank-k fitter does.
C10_RankTwoReadsInRange ==
    hist.op = "fit" =>
        \A r \in hist.fit.reads :
            /\ r.inRange
            /\ r.of = (IF r.loop = "V" THEN "v" ELSE "u")
====
